---- MODULE Spec2Model ----
(***************************************************************************)
(* Model of src/qiskit_cli.py: the QuantumProteinAnalyzer class (circuit   *)
(* construction, simulation driver, Hamiltonian builder) and the           *)
(* interactive_menu loop around it.                                        *)
(*                                                                         *)
(* Numbers.  A Python float is an IEEE double: [s, m, e] stands for        *)
(* s * M * 2^e with sign s in {-1, 0, 1} and M, 2^52 <= M < 2^53, held in  *)
(* m as four limbs of 14 bits, lowest first.  Products, sums and quotients *)
(* are rounded to nearest, ties to even, as the hardware rounds them; the  *)
(* magnitudes the program handles are far from overflow and underflow.     *)
(*                                                                         *)
(* Python None is modelled by the empty value of each type: an operator    *)
(* with no terms, a circuit with no instructions (both are falsy in        *)
(* Python, which is what the `x or self.current_x` tests read).            *)
(***************************************************************************)
EXTENDS Integers, Sequences, FiniteSets, TLC

VARIABLES
    current_circuit,    \* analyzer.current_circuit
    current_operator,   \* analyzer.current_operator
    results_history,    \* analyzer.results_history
    gui_enabled,        \* interactive_menu's gui_enabled
    pc,                 \* where the program is: "menu", "pause", "exited", "crashed", "direct"
    last                \* the call being made or just made: op, stage, args, outcome,
                        \* ret, and the results table it printed

vars == <<current_circuit, current_operator, results_history, gui_enabled, pc, last>>

analyzer == <<current_circuit, current_operator, results_history>>

-----------------------------------------------------------------------------
(* Bounds of the model. *)

\* Largest tensor dimension (rows or columns) drawn for a direct call.
MaxDim == 4

\* Largest number of simulations recorded in one session.
MaxHist == 2

\* Largest number of distinct outcomes in a histogram handed to a direct call.
MaxOutcomes == 12

-----------------------------------------------------------------------------
(* Floats.  A Python float is an IEEE double: 0, or s * M * 2^e with sign  *)
(* s, a 53-bit M (2^52 <= M < 2^53) and an exponent e.  M is kept as four  *)
(* limbs of 14 bits, lowest first, so that no step leaves 32-bit integers. *)
(* Every operation rounds its exact result to the nearest double, a tie    *)
(* going to the even M, as the hardware does.  Exponents stay far from the *)
(* subnormal and overflow ranges for every value the model draws.          *)

Radix == 16384

Abs(x) == IF x < 0 THEN -x ELSE x

RECURSIVE Pow(_, _)
Pow(b, k) == IF k = 0 THEN 1 ELSE b * Pow(b, k - 1)

\* Limb i of the natural number P, lowest limb first; 0 beyond its length.
Limb(P, i) == IF i \in 1..Len(P) THEN P[i] ELSE 0

BigIsZero(P) == \A i \in 1..Len(P) : P[i] = 0

RECURSIVE Carry(_, _)
\* The limbs of the number whose columns (not yet below Radix) are cols,
\* plus carry at the lowest.
Carry(cols, carry) ==
    IF cols = <<>>
    THEN IF carry = 0 THEN <<>> ELSE <<carry % Radix>> \o Carry(<<>>, carry \div Radix)
    ELSE <<(Head(cols) + carry) % Radix>>
         \o Carry(Tail(cols), (Head(cols) + carry) \div Radix)

IntLimbs(n) == Carry(<<>>, n)

RECURSIVE BigToInt(_)
BigToInt(P) == IF P = <<>> THEN 0 ELSE Head(P) + Radix * BigToInt(Tail(P))

BigAdd(P, Q) ==
    Carry([k \in 1..(IF Len(P) > Len(Q) THEN Len(P) ELSE Len(Q)) |->
              Limb(P, k) + Limb(Q, k)], 0)

RECURSIVE ColumnSum(_, _, _, _)
\* P[i]*Q[k+1-i] + P[i+1]*Q[k-i] + ... : column k of the product.
ColumnSum(P, Q, k, i) ==
    IF i > Len(P) \/ i > k THEN 0
    ELSE P[i] * Limb(Q, k + 1 - i) + ColumnSum(P, Q, k, i + 1)

BigMul(P, Q) ==
    IF P = <<>> \/ Q = <<>> THEN <<>>
    ELSE Carry([k \in 1..(Len(P) + Len(Q) - 1) |-> ColumnSum(P, Q, k, 1)], 0)

RECURSIVE IntBitLen(_)
IntBitLen(x) == IF x = 0 THEN 0 ELSE 1 + IntBitLen(x \div 2)

RECURSIVE BitLen(_)
\* The number of bits of P: 0 for 0.
BitLen(P) ==
    IF P = <<>> THEN 0
    ELSE IF P[Len(P)] = 0 THEN BitLen(SubSeq(P, 1, Len(P) - 1))
    ELSE 14 * (Len(P) - 1) + IntBitLen(P[Len(P)])

\* Bit n of P, bit 0 the lowest.
BigBit(P, n) == (Limb(P, n \div 14 + 1) \div Pow(2, n % 14)) % 2

\* P mod 2^n = 0.
BigLowZero(P, n) ==
    /\ \A k \in 1..(n \div 14) : Limb(P, k) = 0
    /\ Limb(P, n \div 14 + 1) % Pow(2, n % 14) = 0

\* P * 2^n.
BigShiftLeft(P, n) ==
    [k \in 1..(n \div 14) |-> 0]
    \o Carry([k \in 1..Len(P) |-> P[k] * Pow(2, n % 14)], 0)

\* P \div 2^n.
BigShiftRight(P, n) ==
    LET q == n \div 14
        r == n % 14
    IN  [k \in 1..(IF Len(P) > q THEN Len(P) - q ELSE 0) |->
            Limb(P, k + q) \div Pow(2, r)
            + (Limb(P, k + q + 1) % Pow(2, r)) * Pow(2, 14 - r)]

\* (P + f) / 2^n to the nearest integer, a tie to the even one; f is a
\* fraction in [0, 1), not 0 exactly when sticky.  For n <= 0, P * 2^-n.
RoundShift(P, n, sticky) ==
    IF n <= 0 THEN BigShiftLeft(P, -n)
    ELSE LET q == BigShiftRight(P, n)
             half == BigBit(P, n - 1) = 1
             rest == sticky \/ ~BigLowZero(P, n - 1)
             odd == BigBit(P, n) = 1
         IN  IF half /\ (rest \/ odd) THEN BigAdd(q, <<1>>) ELSE q

Zero == [s |-> 0, m |-> <<0, 0, 0, 0>>, e |-> 0]

\* The double nearest to s * (P + f) * 2^e.
Normalise(s, P, e, sticky) ==
    IF s = 0 \/ BigIsZero(P) THEN Zero
    ELSE LET n == BitLen(P) - 53
             M == RoundShift(P, n, sticky)
         IN  IF BitLen(M) > 53
             THEN [s |-> s, m |-> [k \in 1..4 |-> Limb(BigShiftRight(M, 1), k)],
                   e |-> e + n + 1]
             ELSE [s |-> s, m |-> [k \in 1..4 |-> Limb(M, k)], e |-> e + n]

\* The float m * 2^e for an integer m of at most 31 bits.
Dy(m, e) ==
    Normalise(IF m > 0 THEN 1 ELSE IF m < 0 THEN -1 ELSE 0, IntLimbs(Abs(m)), e, FALSE)

\* The M of a power of two: 2^52.
PowerOfTwo == <<0, 0, 0, 1024>>

\* a * b.  A factor that is a power of two moves the exponent and leaves
\* nothing to round.
Mul(a, b) ==
    IF a.s * b.s = 0 THEN Zero
    ELSE IF b.m = PowerOfTwo THEN [s |-> a.s * b.s, m |-> a.m, e |-> a.e + b.e + 52]
    ELSE IF a.m = PowerOfTwo THEN [s |-> a.s * b.s, m |-> b.m, e |-> a.e + b.e + 52]
    ELSE Normalise(a.s * b.s, BigMul(a.m, b.m), a.e + b.e, FALSE)

\* a + b, for a >= 0 and b >= 0.
Add(a, b) ==
    IF a.s = 0 THEN b
    ELSE IF b.s = 0 THEN a
    ELSE LET e == IF a.e < b.e THEN a.e ELSE b.e
         IN  Normalise(1, BigAdd(BigShiftLeft(a.m, a.e - e), BigShiftLeft(b.m, b.e - e)),
                       e, FALSE)

\* a / 2.
Half(a) == IF a.s = 0 THEN a ELSE [a EXCEPT !.e = @ - 1]

RECURSIVE DivLoop(_, _, _, _)
\* Long division of the limbs D[1..k] (with r carried in from above) by the
\* integer d < 2^17: the quotient's limbs and the remainder.
DivLoop(D, k, d, r) ==
    IF k = 0 THEN [q |-> <<>>, r |-> r]
    ELSE LET cur == r * Radix + D[k]
             low == DivLoop(D, k - 1, d, cur % d)
         IN  [q |-> low.q \o <<cur \div d>>, r |-> low.r]

\* count / total_shots for integers count >= 0 and 0 < total_shots < 2^17:
\* Python's true division, the double nearest to the quotient.
DivInt(count, total_shots) ==
    LET D == <<0, 0, 0, 0, 0>> \o IntLimbs(count)
        res == DivLoop(D, Len(D), total_shots, 0)
    IN  Normalise(1, res.q, -70, res.r # 0)

\* |a| > |b| for floats that are not 0.
MagnitudeGreater(a, b) ==
    \/ a.e > b.e
    \/ /\ a.e = b.e
       /\ \E k \in 1..4 : /\ a.m[k] > b.m[k]
                          /\ \A j \in (k + 1)..4 : a.m[j] = b.m[j]

\* The float literal 1e-9 of line 322: the double nearest to 10^-9,
\* 0x3E112E0BE826D695.
Threshold == [s |-> 1, m |-> <<5781, 8347, 8382, 1099>>, e |-> -82]

\* abs(coeff) > 1e-9.
AboveThreshold_DropAbs(coeff) == coeff.s = 1 /\ MagnitudeGreater(coeff, Threshold)

AboveThreshold(coeff) == coeff.s # 0 /\ MagnitudeGreater(coeff, Threshold)

-----------------------------------------------------------------------------
(* Tensors: numpy 2-D arrays, 0-indexed. *)

Tensor(r, c, f) == [shape |-> <<r, c>>, data |-> f]

\* Entries of the symmetric tensors passed directly: 0.5 and 1.0.
TensorVals == {Dy(1, -1), Dy(1, 0)}

\* Coupling factors: 0.0, 1.0 (the default), -1.0, 2^-29 and -2^-29
\* (magnitude about 1.86e-9: 0.5 times it is below 1e-9, 1.0 times it above),
\* and 1e-9 itself (1.0 times it is the threshold, not above it).
Lambdas == {Zero, Dy(1, 0), Dy(-1, 0), Dy(1, -29), Dy(-1, -29), Threshold}

UpperIdx(k) == {ij \in (1..(k - 1)) \X (1..(k - 1)) : ij[1] <= ij[2]}

\* The symmetric k x k tensor with upper triangle u on rows/columns 1..k-1
\* and b on row 0 and column 0.
SymTensor(k, u, b) ==
    Tensor(k, k, [ij \in (0..(k - 1)) \X (0..(k - 1)) |->
        IF ij[1] = 0 \/ ij[2] = 0 THEN b
        ELSE IF ij[1] <= ij[2] THEN u[ij] ELSE u[<<ij[2], ij[1]>>]])

\* The k x k tensor with diagonal d on rows 1..k-1 and 0.0 everywhere else.
DiagTensor(k, d) ==
    Tensor(k, k, [ij \in (0..(k - 1)) \X (0..(k - 1)) |->
        IF ij[1] = ij[2] /\ ij[1] > 0 THEN d[ij[1]] ELSE Zero])

ConstTensor(r, c, v) == Tensor(r, c, [ij \in (0..(r - 1)) \X (0..(c - 1)) |-> v])

BorderVals == {Zero, Dy(1, 0)}

SquareTensors(k) ==
    {SymTensor(k, u, b) : u \in [UpperIdx(k) -> TensorVals], b \in BorderVals}
    \cup {DiagTensor(k, d) : d \in [1..(k - 1) -> TensorVals \cup {Zero}]}

\* The tensors drawn for a direct call: every shape up to MaxDim x MaxDim,
\* constant tensors of every shape (square or not), and the symmetric and
\* diagonal tensors of every square shape.
DirectTensors ==
    UNION {SquareTensors(k) : k \in 2..MaxDim}
    \cup {ConstTensor(rc[1], rc[2], v) : rc \in (0..MaxDim) \X (0..MaxDim), v \in BorderVals}

-----------------------------------------------------------------------------
(* create_polarity_operator *)

RECURSIVE Rep_OneMore(_, _)
Rep_OneMore(ch, k) == IF k < 0 THEN <<>> ELSE <<ch>> \o Rep_OneMore(ch, k - 1)

RECURSIVE Rep(_, _)
\* ch * k for a one-character string ch; Python gives '' for k <= 0.
Rep(ch, k) == IF k <= 0 THEN <<>> ELSE <<ch>> \o Rep(ch, k - 1)

paulis == <<"X", "Y", "Z">>

\* SparsePauliOp.from_list(pauli_terms): the operator whose (label, coeff)
\* list is pauli_terms, in order.
SparsePauliOpFromList(pauli_terms) == pauli_terms

\* SparsePauliOp(label, coeff): the one-term operator.
SparsePauliOp(label, coeff) == << <<label, coeff>> >>

NoOperator == <<>>

RECURSIVE SingleQubitLoop(_, _, _, _)
\* for i in range(num_qubits): for j, pauli_op in enumerate(paulis): ...
\* k runs over the pairs (i, j) in loop order, k = 3*i + j.
SingleQubitLoop(s_tensor, lambda_scalar, num_qubits, k) ==
    IF k >= 3 * num_qubits THEN <<>>
    ELSE LET i == k \div 3
             pauli_op == paulis[(k % 3) + 1]
             coeff == Mul(lambda_scalar, s_tensor.data[<<i + 1, i + 1>>])
             pauli_str == Rep("I", i) \o <<pauli_op>> \o Rep("I", num_qubits - 1 - i)
         IN  (IF AboveThreshold(coeff) THEN << <<pauli_str, coeff>> >> ELSE <<>>)
             \o SingleQubitLoop(s_tensor, lambda_scalar, num_qubits, k + 1)

RECURSIVE TwoQubitLoop(_, _, _, _, _)
\* for i in range(num_qubits): for j in range(i + 1, num_qubits): ...
TwoQubitLoop(s_tensor, lambda_scalar, num_qubits, i, j) ==
    IF i >= num_qubits THEN <<>>
    ELSE IF j >= num_qubits
         THEN TwoQubitLoop(s_tensor, lambda_scalar, num_qubits, i + 1, i + 2)
    ELSE LET coeff == Mul(lambda_scalar, s_tensor.data[<<i + 1, j + 1>>])
             pauli_str == Rep("I", i) \o <<"Z">> \o Rep("I", j - i - 1)
                          \o <<"Z">> \o Rep("I", num_qubits - 1 - j)
         IN  (IF AboveThreshold(coeff) THEN << <<pauli_str, coeff>> >> ELSE <<>>)
             \o TwoQubitLoop(s_tensor, lambda_scalar, num_qubits, i, j + 1)

PauliTerms_OneAxis(s_tensor, lambda_scalar) ==
    LET num_qubits == s_tensor.shape[1] - 1
    IN  SelectSeq(SingleQubitLoop(s_tensor, lambda_scalar, num_qubits, 0),
                  LAMBDA t : \A q \in 1..Len(t[1]) : t[1][q] \in {"I", "Z"})
        \o TwoQubitLoop(s_tensor, lambda_scalar, num_qubits, 0, 1)

\* Lines 314-334: the term list the two loops build.
PauliTerms(s_tensor, lambda_scalar) ==
    LET num_qubits == s_tensor.shape[1] - 1
    IN  SingleQubitLoop(s_tensor, lambda_scalar, num_qubits, 0)
        \o TwoQubitLoop(s_tensor, lambda_scalar, num_qubits, 0, 1)

\* Lines 309-312: the two shape checks; FALSE is a ValueError.
TensorIsValid_NoSizeCheck(s_tensor) ==
    s_tensor.shape[1] = s_tensor.shape[2]

TensorIsValid(s_tensor) ==
    /\ ~(s_tensor.shape[1] # s_tensor.shape[2])
    /\ ~(s_tensor.shape[1] < 2)

\* Line 338: the operator returned when no term was built.
EmptyOperator_WholeSize(s_tensor) ==
    SparsePauliOp(Rep("I", s_tensor.shape[1]), Zero)

EmptyOperator(s_tensor) ==
    SparsePauliOp(Rep("I", s_tensor.shape[1] - 1), Zero)

\* Lines 336-341: self.current_operator after the method, given the term
\* list built; the early return of line 338 leaves it as it was.
OperatorKept_StoresEmpty(cur, s_tensor, pauli_terms) ==
    IF pauli_terms = <<>> THEN EmptyOperator(s_tensor)
    ELSE SparsePauliOpFromList(pauli_terms)

OperatorKept(cur, s_tensor, pauli_terms) ==
    IF pauli_terms = <<>> THEN cur
    ELSE SparsePauliOpFromList(pauli_terms)

\* The whole method, called on an analyzer whose current operator is cur:
\* how it ends, what it returns, and the analyzer's current operator after.
CreatePolarityOperator(cur, s_tensor, lambda_scalar) ==
    IF ~TensorIsValid(s_tensor)
    THEN [outcome |-> "ValueError", ret |-> NoOperator, current_operator |-> cur]
    ELSE LET pauli_terms == PauliTerms(s_tensor, lambda_scalar)
         IN  [outcome |-> "returned",
              ret |-> IF pauli_terms = <<>> THEN EmptyOperator(s_tensor)
                      ELSE SparsePauliOpFromList(pauli_terms),
              current_operator |-> OperatorKept(cur, s_tensor, pauli_terms)]

-----------------------------------------------------------------------------
(* create_protein_quantum_circuit *)

MinQubits == 2

MaxQubits == 10

Gate(name, qubits, theta) == [name |-> name, qubits |-> qubits, theta |-> theta]

RECURSIVE AllQubits(_, _)
\* The qubit indices i, i+1, ..., n-1 in order.
AllQubits(n, i) == IF i >= n THEN <<>> ELSE <<i>> \o AllQubits(n, i + 1)

Barrier(n) == Gate("barrier", AllQubits(n, 0), "")

InteractionLoop_RotationsGrouped(num_qubits, i) ==
    [k \in 1..(num_qubits - 1 - i) |-> Gate("rxx", <<i + k - 1, i + k>>, "pi/4")]
    \o [k \in 1..(num_qubits - 1 - i) |-> Gate("rzz", <<i + k - 1, i + k>>, "pi/8")]

RECURSIVE InteractionLoop(_, _)
\* for i in range(num_qubits - 1): qc.rxx(pi/4, i, i+1); qc.rzz(pi/8, i, i+1)
InteractionLoop(num_qubits, i) ==
    IF i >= num_qubits - 1 THEN <<>>
    ELSE <<Gate("rxx", <<i, i + 1>>, "pi/4"), Gate("rzz", <<i, i + 1>>, "pi/8")>>
         \o InteractionLoop(num_qubits, i + 1)

RECURSIVE CnotLoop(_, _)
\* for i in range(num_qubits - 1): qc.cx(i, i + 1)
CnotLoop(num_qubits, i) ==
    IF i >= num_qubits - 1 THEN <<>>
    ELSE <<Gate("cx", <<i, i + 1>>, "")>> \o CnotLoop(num_qubits, i + 1)

RECURSIVE MeasureLoop(_, _)
\* qc.measure_all(): after a barrier, qubit i is measured into bit i of a new register.
MeasureLoop(num_qubits, i) ==
    IF i >= num_qubits THEN <<>>
    ELSE <<Gate("measure", <<i>>, "")>> \o MeasureLoop(num_qubits, i + 1)

\* Lines 116-143: the instructions of the circuit, in order.
CircuitOps(num_qubits, custom_gates) ==
    <<Gate("x", <<0>>, ""), Gate("h", <<1>>, "")>>
    \o (IF num_qubits >= 3 THEN <<Gate("x", <<2>>, "")>> ELSE <<>>)
    \o (IF num_qubits >= 4 THEN <<Gate("h", <<3>>, "")>> ELSE <<>>)
    \o (IF num_qubits >= 5 THEN <<Gate("x", <<4>>, "")>> ELSE <<>>)
    \o (IF custom_gates
        THEN <<Barrier(num_qubits)>>
             \o InteractionLoop(num_qubits, 0)
             \o <<Barrier(num_qubits)>>
             \o (IF num_qubits >= 4
                 THEN <<Gate("swap", <<0, num_qubits - 1>>, "")>> ELSE <<>>)
             \o <<Barrier(num_qubits)>>
             \o CnotLoop(num_qubits, 0)
        ELSE <<>>)
    \o <<Barrier(num_qubits)>> \o MeasureLoop(num_qubits, 0)

NoCircuit == [num_qubits |-> 0, ops |-> <<>>]

QuantumCircuit(num_qubits, ops) == [num_qubits |-> num_qubits, ops |-> ops]

\* Line 113: the range check; FALSE is a ValueError.
QubitCountAccepted_NoUpperEnd(num_qubits) == MinQubits <= num_qubits

QubitCountAccepted(num_qubits) == MinQubits <= num_qubits /\ num_qubits <= MaxQubits

\* The whole method, called on an analyzer whose current circuit is cur.
CreateProteinQuantumCircuit(cur, num_qubits, custom_gates) ==
    IF ~QubitCountAccepted(num_qubits)
    THEN [outcome |-> "ValueError", ret |-> NoCircuit, current_circuit |-> cur]
    ELSE LET qc == QuantumCircuit(num_qubits, CircuitOps(num_qubits, custom_gates))
         IN  [outcome |-> "returned", ret |-> qc, current_circuit |-> qc]

Max(a, b) == IF a >= b THEN a ELSE b

RECURSIVE MaxOver(_, _)
\* The largest level among the qubits of the sequence qs.
MaxOver(levels, qs) ==
    IF qs = <<>> THEN 0 ELSE Max(levels[Head(qs)], MaxOver(levels, Tail(qs)))

RECURSIVE DepthLoop(_, _, _)
\* circuit.depth(): each instruction sits one level above the highest level of
\* its qubits; a barrier is not counted but brings its qubits to one level.
DepthLoop(ops, k, levels) ==
    IF k > Len(ops) THEN levels
    ELSE LET op == ops[k]
             inc == IF op.name = "barrier" THEN 0 ELSE 1
             max_level == MaxOver(levels, op.qubits) + inc
             touched == {op.qubits[x] : x \in 1..Len(op.qubits)}
         IN  DepthLoop(ops, k + 1,
                       [q \in DOMAIN levels |-> IF q \in touched THEN max_level ELSE levels[q]])

Depth(circuit) ==
    LET levels == DepthLoop(circuit.ops, 1, [q \in 0..(circuit.num_qubits - 1) |-> 0])
    IN  MaxOver(levels, AllQubits(circuit.num_qubits, 0))

-----------------------------------------------------------------------------
(* simulate_protein_dynamics *)

\* Defaults of the prompts of options 1, 3 and 5 (lines 416, 424, 432).
DefaultQubits == 5

DefaultShots == 1024

DefaultSize == 5

\* What the simulator may hand back for one run (transpile, run, result,
\* get_counts): an exception, or a histogram.  A histogram has at least one
\* outcome and its counts sum to shots, so there is none for shots < 1.
\* Outcomes are numbered; elapsed is time.time() - start_time in ticks.
SimulatorOutcomes(shots) ==
    {[kind |-> "error", counts |-> <<>>, elapsed |-> 0]}
    \cup (IF shots >= 1
          THEN {[kind |-> "counts", counts |-> <<shots>>, elapsed |-> 1]}
          ELSE {})
    \cup (IF shots >= 2
          THEN {[kind |-> "counts", counts |-> <<shots - 1, 1>>, elapsed |-> 1]}
          ELSE {})

\* Line 222: self.results_history.append(result_data).
Recorded(history, result_data) == Append(history, result_data)

\* The whole method with circuit=None, on an analyzer with the given current
\* circuit and history; sim is what the simulator hands back.
SimulateProteinDynamics(cur_circuit, history, shots, sim) ==
    IF cur_circuit.ops = <<>>
    THEN [outcome |-> "returned_none", ret |-> <<>>, results_history |-> history]
    ELSE IF sim.kind = "error"
    THEN [outcome |-> "returned_none", ret |-> <<>>, results_history |-> history]
    ELSE LET result_data == [counts |-> sim.counts,
                             shots |-> shots,
                             simulation_time |-> sim.elapsed,
                             circuit_depth |-> Depth(cur_circuit),
                             num_qubits |-> cur_circuit.num_qubits]
             appended == Recorded(history, result_data)
         IN  \* the verbose report reads sorted_states[0] and divides by shots,
             \* inside the try block and after the append
             IF sim.counts = <<>> \/ shots = 0
             THEN [outcome |-> "returned_none", ret |-> <<>>, results_history |-> appended]
             ELSE [outcome |-> "returned", ret |-> result_data, results_history |-> appended]

-----------------------------------------------------------------------------
(* visualize_results and _print_results_table *)

\* Line 283: sorted_results[:10].
TopRows == 10

\* results=None, and a history record's place when there is none.
NoRecord ==
    [counts |-> <<>>, shots |-> 0, simulation_time |-> 0, circuit_depth |-> 0,
     num_qubits |-> 0]

RECURSIVE InsertByCount(_, _)
\* item put behind every entry whose count is not smaller than its own.
InsertByCount(sorted, item) ==
    IF sorted = <<>> THEN <<item>>
    ELSE IF Head(sorted)[2] >= item[2]
    THEN <<Head(sorted)>> \o InsertByCount(Tail(sorted), item)
    ELSE <<item>> \o sorted

RECURSIVE SortLoop(_, _, _)
\* Line 282: sorted(counts.items(), key=count, reverse=True), a stable sort:
\* outcomes of equal count stay in the order of the histogram.
SortLoop(counts, k, sorted) ==
    IF k > Len(counts) THEN sorted
    ELSE SortLoop(counts, k + 1, InsertByCount(sorted, <<k, counts[k]>>))

SortedResults(counts) == SortLoop(counts, 1, <<>>)

\* Lines 284-285: prob = (count / total_shots) * 100, two float operations,
\* printed with two decimals: the hundredths nearest to the float prob, a
\* tie going to the even neighbour.
Percent(count, total_shots) ==
    LET prob == Mul(DivInt(count, total_shots), Dy(100, 0))
    IN  IF prob.s = 0 THEN 0
        ELSE BigToInt(RoundShift(BigMul(prob.m, IntLimbs(100)), -prob.e, FALSE))

NoTable == [printed |-> FALSE, rows |-> <<>>]

\* Lines 277-287: the rows printed, each (state, count, probability).
PrintResultsTable_WholeHistogram(counts, total_shots) ==
    LET sorted_results == SortedResults(counts)
    IN  [printed |-> TRUE,
         rows |-> [k \in 1..Len(sorted_results) |->
                     <<sorted_results[k][1], sorted_results[k][2],
                       Percent(sorted_results[k][2], total_shots)>>]]

PrintResultsTable(counts, total_shots) ==
    LET sorted_results == SortedResults(counts)
        shown == IF Len(sorted_results) < TopRows THEN Len(sorted_results) ELSE TopRows
    IN  [printed |-> TRUE,
         rows |-> [k \in 1..shown |->
                     <<sorted_results[k][1], sorted_results[k][2],
                       Percent(sorted_results[k][2], total_shots)>>]]

\* What the plotting facility does with a histogram (lines 259-260): it shows
\* the plot, or plot_histogram or plt.show raises.
PlotOutcomes == {"shown", "error"}

\* The whole method on an analyzer with the given history: results is the
\* record passed (NoRecord for None), plot what the plotting facility does.
VisualizeResults(history, results, gui, plot) ==
    LET res == IF results # NoRecord THEN results
               ELSE IF history # <<>> THEN history[Len(history)] ELSE NoRecord
    IN  IF res = NoRecord \/ res.counts = <<>>
        THEN [outcome |-> "returned_none", table |-> NoTable]
        ELSE IF gui /\ plot = "shown"
        THEN [outcome |-> "returned_none", table |-> NoTable]
        ELSE [outcome |-> "returned_none",
              table |-> PrintResultsTable(res.counts, res.shots)]

-----------------------------------------------------------------------------
(* The record of the call being made or just made. *)

NoValue == <<>>

Call(op, args) ==
    [op |-> op, stage |-> "call", args |-> args, outcome |-> "pending", ret |-> NoValue,
     table |-> NoTable]

Made(op, stage, args, outcome, ret) ==
    [op |-> op, stage |-> stage, args |-> args, outcome |-> outcome, ret |-> ret,
     table |-> NoTable]

Idle == Made("none", "menu", <<>>, "none", NoValue)

-----------------------------------------------------------------------------
(* Direct calls: an analyzer in a state the program can reach, and one     *)
(* method call on it with arguments drawn from the bounded input sets.     *)

\* An operator left by an earlier call: the 2x2 tensor of ones with lambda 1.0.
SeedOperator == PauliTerms(ConstTensor(2, 2, Dy(1, 0)), Dy(1, 0))

\* A circuit left by an earlier call, and the record of one simulation of it.
SeedCircuit == QuantumCircuit(MinQubits, CircuitOps(MinQubits, TRUE))

SeedRecord ==
    SimulateProteinDynamics(SeedCircuit, <<>>, DefaultShots,
        [kind |-> "counts", counts |-> <<DefaultShots>>, elapsed |-> 1]).ret

\* The analyzer as constructed (lines 82-84), and one that has been used.
PreparedAnalyzers ==
    {<<NoCircuit, NoOperator, <<>> >>, <<SeedCircuit, SeedOperator, <<SeedRecord>> >>}

RECURSIVE SumOf(_)
SumOf(counts) == IF counts = <<>> THEN 0 ELSE Head(counts) + SumOf(Tail(counts))

\* Histograms of k outcomes, the outcomes numbered in the order the
\* simulator listed them: counts rising, all equal, and rising in pairs.
Histograms(k) ==
    {[i \in 1..k |-> i], [i \in 1..k |-> 1], [i \in 1..k |-> (i + 1) \div 2]}

\* The record simulate_protein_dynamics builds (lines 214-220) for a run of
\* the largest circuit that gave the histogram counts.
RecordOf(counts) ==
    LET circuit == QuantumCircuit(MaxQubits, CircuitOps(MaxQubits, TRUE))
    IN  [counts |-> counts, shots |-> SumOf(counts), simulation_time |-> 1,
         circuit_depth |-> Depth(circuit), num_qubits |-> circuit.num_qubits]

DirectRecords == {RecordOf(h) : h \in UNION {Histograms(k) : k \in 1..MaxOutcomes}}

DirectCalls ==
    {Call("create_polarity_operator", [s_tensor |-> t, lambda_scalar |-> l]) :
        t \in DirectTensors, l \in Lambdas}
    \cup {Call("create_protein_quantum_circuit", [num_qubits |-> n, custom_gates |-> b]) :
        n \in 0..(MaxQubits + 2), b \in BOOLEAN}
    \cup {Call("visualize_results", [results |-> r, gui |-> g, plot |-> p]) :
        r \in DirectRecords \cup {NoRecord}, g \in BOOLEAN, p \in PlotOutcomes}

InitDirect ==
    /\ pc = "direct"
    /\ \E a \in PreparedAnalyzers :
          /\ current_circuit = a[1]
          /\ current_operator = a[2]
          /\ results_history = a[3]
    /\ gui_enabled = TRUE
    /\ last \in DirectCalls

DirectCreatePolarityOperator ==
    /\ pc = "direct"
    /\ last.op = "create_polarity_operator"
    /\ last.outcome = "pending"
    /\ LET r == CreatePolarityOperator(current_operator, last.args.s_tensor,
                                       last.args.lambda_scalar)
       IN  /\ current_operator' = r.current_operator
           /\ last' = [last EXCEPT !.outcome = r.outcome, !.ret = r.ret]
    /\ UNCHANGED <<current_circuit, results_history, gui_enabled, pc>>

DirectCreateCircuit ==
    /\ pc = "direct"
    /\ last.op = "create_protein_quantum_circuit"
    /\ last.outcome = "pending"
    /\ LET r == CreateProteinQuantumCircuit(current_circuit, last.args.num_qubits,
                                            last.args.custom_gates)
       IN  /\ current_circuit' = r.current_circuit
           /\ last' = [last EXCEPT !.outcome = r.outcome, !.ret = r.ret]
    /\ UNCHANGED <<current_operator, results_history, gui_enabled, pc>>

DirectVisualizeResults ==
    /\ pc = "direct"
    /\ last.op = "visualize_results"
    /\ last.outcome = "pending"
    /\ LET r == VisualizeResults(results_history, last.args.results, last.args.gui,
                                 last.args.plot)
       IN  last' = [last EXCEPT !.outcome = r.outcome, !.table = r.table]
    /\ UNCHANGED <<current_circuit, current_operator, results_history, gui_enabled, pc>>

NextDirect ==
    \/ DirectCreatePolarityOperator
    \/ DirectCreateCircuit
    \/ DirectVisualizeResults

SpecDirect == InitDirect /\ [][NextDirect]_vars

-----------------------------------------------------------------------------
(* interactive_menu: the session loop.                                     *)
(*                                                                         *)
(* A line typed at a prompt is blank, a numeral (kind "number"), some      *)
(* other text, or no line at all: Ctrl-C makes input() raise               *)
(* KeyboardInterrupt and end of input makes it raise EOFError.             *)

Line(kind, value) == [kind |-> kind, value |-> value]

Aborts == {Line("interrupt", 0), Line("eof", 0)}

\* What input() raises for a line that never arrives.
Raised(line) == IF line.kind = "interrupt" THEN "KeyboardInterrupt" ELSE "EOFError"

IsAbort(line) == line.kind \in {"interrupt", "eof"}

\* Lines typed at the prompts of options 1, 3 and 5.  The qubit counts are
\* the default (a blank line) and the neighbours of the accepted range
\* outside it; the ends of the range are drawn by the direct calls.
QubitLines ==
    {Line("blank", 0), Line("text", 0)} \cup Aborts
    \cup {Line("number", n) : n \in {MinQubits - 1, MaxQubits + 1}}

\* Answers at the second prompt of option 1, as typed, character by
\* character: nothing, "s", "n", "N" and " n ".
CustomLines ==
    {Line("blank", <<>>), Line("text", <<"s">>), Line("text", <<"n">>),
     Line("text", <<"N">>), Line("text", <<" ", "n", " ">>)} \cup Aborts

\* str.lower(), for the letters of the answers above.
Lower(text) ==
    [k \in 1..Len(text) |->
        IF text[k] = "N" THEN "n" ELSE IF text[k] = "S" THEN "s" ELSE text[k]]

RECURSIVE StripLeft(_)
StripLeft(text) ==
    IF text # <<>> /\ Head(text) = " " THEN StripLeft(Tail(text)) ELSE text

RECURSIVE StripRight(_)
StripRight(text) ==
    IF text # <<>> /\ text[Len(text)] = " "
    THEN StripRight(SubSeq(text, 1, Len(text) - 1)) ELSE text

\* str.strip().
Strip(text) == StripRight(StripLeft(text))

ShotLines ==
    {Line("blank", 0), Line("text", 0), Line("number", 0), Line("number", 1)} \cup Aborts

SizeLines ==
    {Line("blank", 0), Line("text", 0), Line("number", 1), Line("number", 2)} \cup Aborts

LambdaLines ==
    {Line("blank", Zero), Line("text", Zero), Line("number", Zero),
     Line("number", Dy(1, -29)), Line("interrupt", Zero), Line("eof", Zero)}

\* int(line or default) and float(line or default): the value, for a line
\* that parses; text that is no numeral raises ValueError.
Parses(line) == line.kind \in {"blank", "number"}

Parsed(line, default) == IF line.kind = "blank" THEN default ELSE line.value

\* Lines 380-381: the values np.random.rand and np.random.uniform draw after
\* np.random.seed(42), in order: the first 30 doubles of the generator's
\* stream, which every call of create_example_protein_tensor starts anew.
RandomStream ==
    <<[s |-> 1, m |-> <<4588, 14717, 1905, 1534>>, e |-> -54],
      [s |-> 1, m |-> <<5716, 8943, 1030, 1947>>, e |-> -53],
      [s |-> 1, m |-> <<10065, 15481, 2024, 1499>>, e |-> -53],
      [s |-> 1, m |-> <<11440, 6540, 861, 1226>>, e |-> -53],
      [s |-> 1, m |-> <<8580, 7304, 1715, 1278>>, e |-> -55],
      [s |-> 1, m |-> <<16204, 1637, 14862, 1277>>, e |-> -55],
      [s |-> 1, m |-> <<5488, 13713, 4649, 1903>>, e |-> -57],
      [s |-> 1, m |-> <<14261, 9558, 15216, 1773>>, e |-> -53],
      [s |-> 1, m |-> <<2989, 12873, 1368, 1231>>, e |-> -53],
      [s |-> 1, m |-> <<642, 2666, 2173, 1450>>, e |-> -53],
      [s |-> 1, m |-> <<16000, 7393, 416, 1349>>, e |-> -58],
      [s |-> 1, m |-> <<5029, 2957, 6150, 1986>>, e |-> -53],
      [s |-> 1, m |-> <<5110, 16132, 13803, 1704>>, e |-> -53],
      [s |-> 1, m |-> <<12440, 12, 7897, 1739>>, e |-> -55],
      [s |-> 1, m |-> <<6456, 16256, 8357, 1489>>, e |-> -55],
      [s |-> 1, m |-> <<13384, 10116, 7368, 1502>>, e |-> -55],
      [s |-> 1, m |-> <<10856, 5010, 2887, 1246>>, e |-> -54],
      [s |-> 1, m |-> <<15459, 28, 11488, 1074>>, e |-> -53],
      [s |-> 1, m |-> <<15194, 8380, 4043, 1769>>, e |-> -54],
      [s |-> 1, m |-> <<15630, 12490, 14328, 1192>>, e |-> -54],
      [s |-> 1, m |-> <<13607, 5733, 1224, 1253>>, e |-> -53],
      [s |-> 1, m |-> <<9340, 764, 12021, 1142>>, e |-> -55],
      [s |-> 1, m |-> <<84, 7977, 10231, 1196>>, e |-> -54],
      [s |-> 1, m |-> <<14136, 1906, 10127, 1500>>, e |-> -54],
      [s |-> 1, m |-> <<4060, 8934, 1026, 1868>>, e |-> -54],
      [s |-> 1, m |-> <<14894, 6628, 661, 1608>>, e |-> -53],
      [s |-> 1, m |-> <<4212, 6266, 11921, 1635>>, e |-> -55],
      [s |-> 1, m |-> <<5139, 8123, 2492, 1053>>, e |-> -53],
      [s |-> 1, m |-> <<14103, 6007, 4342, 1213>>, e |-> -53],
      [s |-> 1, m |-> <<880, 7205, 1427, 1522>>, e |-> -57]>>

\* create_example_protein_tensor(size), lines 374-384: base_tensor takes the
\* first size*size values row by row, s_tensor = (base_tensor +
\* base_tensor.T) / 2, and the diagonal is overwritten by uniform(0.5, 2.5),
\* which is 0.5 + (2.5 - 0.5) * the next value, one for each row.
ExampleTensor(size) ==
    LET base_tensor == [ij \in (0..(size - 1)) \X (0..(size - 1)) |->
                           RandomStream[ij[1] * size + ij[2] + 1]]
    IN  Tensor(size, size, [ij \in (0..(size - 1)) \X (0..(size - 1)) |->
            IF ij[1] = ij[2]
            THEN Add(Dy(1, -1), Mul(Dy(2, 0), RandomStream[size * size + ij[1] + 1]))
            ELSE Half(Add(base_tensor[ij], base_tensor[<<ij[2], ij[1]>>]))])

\* The tensors of the sizes the stream above is long enough for.
ExampleTensorOfSize == [size \in 1..DefaultSize |-> ExampleTensor(size)]

\* What a handler leaves behind: the session state after it and the record
\* of the call.
After(circuit, operator, history, gui, call) ==
    [current_circuit |-> circuit, current_operator |-> operator,
     results_history |-> history, gui_enabled |-> gui, last |-> call]

\* A handler that ended at a prompt or changed nothing.
Same(call) == After(current_circuit, current_operator, results_history, gui_enabled, call)

\* When Ctrl-C arrives while a handler runs.  Every method prints before it
\* changes the analyzer (lines 109, 200, 204, 305) and again after it (lines
\* 147, 225, 344), and KeyboardInterrupt passes the method's own handlers
\* (line 232 catches Exception only): "working" is an interrupt before the
\* method has changed anything, "reporting" one during its closing report,
\* which is printed only by a call that is about to return its result.
CtrlC == {"never", "working", "reporting"}

\* The call of method op as the interrupt leaves it: r is what the method
\* does when it runs to its end, after the session state it leaves then.
Interrupted(op, args, r, after, ctrl_c) ==
    IF ctrl_c = "working"
    THEN Same(Made(op, "call", args, "KeyboardInterrupt", NoValue))
    ELSE IF ctrl_c = "reporting" /\ r.outcome = "returned"
    THEN [after EXCEPT !.last = Made(op, "call", args, "KeyboardInterrupt", NoValue)]
    ELSE after

\* Lines 415-418.
HandleCreateCircuit(q_line, c_line, ctrl_c) ==
    LET op == "create_protein_quantum_circuit" IN
    IF IsAbort(q_line) THEN Same(Made(op, "prompt", <<>>, Raised(q_line), NoValue))
    ELSE IF ~Parses(q_line) THEN Same(Made(op, "prompt", <<>>, "ValueError", NoValue))
    ELSE IF IsAbort(c_line) THEN Same(Made(op, "prompt", <<>>, Raised(c_line), NoValue))
    ELSE LET num_qubits == Parsed(q_line, DefaultQubits)
             custom == Strip(Lower(c_line.value)) # <<"n">>
             args == [num_qubits |-> num_qubits, custom_gates |-> custom]
             r == CreateProteinQuantumCircuit(current_circuit, num_qubits, custom)
         IN  Interrupted(op, args, r,
                 After(r.current_circuit, current_operator, results_history,
                       gui_enabled, Made(op, "call", args, r.outcome, r.ret)),
                 ctrl_c)

\* Lines 423-426.  run is what the simulator hands back.
HandleSimulate(s_line, run, ctrl_c) ==
    LET op == "simulate_protein_dynamics" IN
    IF IsAbort(s_line) THEN Same(Made(op, "prompt", <<>>, Raised(s_line), NoValue))
    ELSE IF ~Parses(s_line) THEN Same(Made(op, "prompt", <<>>, "ValueError", NoValue))
    ELSE LET shots == Parsed(s_line, DefaultShots)
             args == [shots |-> shots]
             r == SimulateProteinDynamics(current_circuit, results_history, shots, run)
         IN  Interrupted(op, args, r,
                 After(current_circuit, current_operator, r.results_history,
                       gui_enabled, Made(op, "call", args, r.outcome, r.ret)),
                 ctrl_c)

\* Lines 431-436.
HandleCreateOperator(z_line, l_line, ctrl_c) ==
    LET op == "create_polarity_operator" IN
    IF IsAbort(z_line) THEN Same(Made(op, "prompt", <<>>, Raised(z_line), NoValue))
    ELSE IF ~Parses(z_line) THEN Same(Made(op, "prompt", <<>>, "ValueError", NoValue))
    ELSE IF IsAbort(l_line) THEN Same(Made(op, "prompt", <<>>, Raised(l_line), NoValue))
    ELSE IF ~Parses(l_line) THEN Same(Made(op, "prompt", <<>>, "ValueError", NoValue))
    ELSE LET s_tensor == ExampleTensorOfSize[Parsed(z_line, DefaultSize)]
             lambda_val == Parsed(l_line, Dy(1, 0))
             args == [s_tensor |-> s_tensor, lambda_scalar |-> lambda_val]
             r == CreatePolarityOperator(current_operator, s_tensor, lambda_val)
         IN  Interrupted(op, args, r,
                 After(current_circuit, r.current_operator, results_history,
                       gui_enabled, Made(op, "call", args, r.outcome, r.ret)),
                 ctrl_c)

\* What a handler that only prints ends in: its own end, or Ctrl-C.
Ends(end) == {end, "KeyboardInterrupt"}

\* Lines 464-472 and 459: where the loop goes for what the handler raised.
\* ValueError, KeyboardInterrupt and every Exception (EOFError is one) are
\* reported; SystemExit from sys.exit(0) is none of them.  The closing prompt
\* is skipped when the choice was 9 (line 471).
AfterHandler(op, outcome) ==
    IF outcome = "SystemExit" THEN "exited"
    ELSE IF op = "quit" THEN "menu"
    ELSE "pause"

Finish(r) ==
    /\ current_circuit' = r.current_circuit
    /\ current_operator' = r.current_operator
    /\ results_history' = r.results_history
    /\ gui_enabled' = r.gui_enabled
    /\ last' = r.last
    /\ pc' = AfterHandler(r.last.op, r.last.outcome)

Init ==
    /\ current_circuit = NoCircuit
    /\ current_operator = NoOperator
    /\ results_history = <<>>
    /\ gui_enabled = TRUE
    /\ pc = "menu"
    /\ last = Idle

\* Line 412: input() at the menu prompt is outside the try block.
MenuPromptAbort ==
    /\ pc = "menu"
    /\ \E line \in Aborts :
          last' = Made("menu_prompt", "prompt", <<>>, Raised(line), NoValue)
    /\ pc' = "crashed"
    /\ UNCHANGED <<current_circuit, current_operator, results_history, gui_enabled>>

Option1 ==
    /\ pc = "menu"
    /\ \E q_line \in QubitLines, c_line \in CustomLines, ctrl_c \in CtrlC :
          Finish(HandleCreateCircuit(q_line, c_line, ctrl_c))

\* Line 421: visualize_circuit prints or draws.
Option2 ==
    /\ pc = "menu"
    /\ \E outcome \in Ends("returned_none") :
          Finish(Same(Made("visualize_circuit", "call", [gui |-> gui_enabled],
                           outcome, NoValue)))

Option3 ==
    /\ pc = "menu"
    /\ \E s_line \in ShotLines :
          \E run \in SimulatorOutcomes(Parsed(s_line, DefaultShots)), ctrl_c \in CtrlC :
             LET r == HandleSimulate(s_line, run, ctrl_c)
             IN  /\ Len(r.results_history) <= MaxHist
                 /\ Finish(r)

\* Line 429: visualize_results prints or plots; Ctrl-C can end either.
Option4 ==
    /\ pc = "menu"
    /\ \E plot \in PlotOutcomes \cup {"interrupt"} :
          LET args == [gui |-> gui_enabled, plot |-> plot]
              r == VisualizeResults(results_history, NoRecord, gui_enabled, plot)
          IN  IF plot = "interrupt"
              THEN Finish(Same(Made("visualize_results", "call", args,
                                    "KeyboardInterrupt", NoValue)))
              ELSE Finish(Same([Made("visualize_results", "call", args,
                                     r.outcome, NoValue) EXCEPT !.table = r.table]))

Option5 ==
    /\ pc = "menu"
    /\ \E z_line \in SizeLines, l_line \in LambdaLines, ctrl_c \in CtrlC :
          Finish(HandleCreateOperator(z_line, l_line, ctrl_c))

\* Line 439.
Option6 ==
    /\ pc = "menu"
    /\ \E outcome \in Ends("returned_none") :
          Finish(Same(Made("analyze_operator", "call", <<>>, outcome, NoValue)))

\* Lines 442-445: the toggle is flipped before the message is printed.
Option7 ==
    /\ pc = "menu"
    /\ \E outcome \in Ends("done") :
          Finish(After(current_circuit, current_operator, results_history,
                       ~gui_enabled, Made("toggle_gui", "menu", <<>>, outcome, NoValue)))

\* Lines 448-455.
Option8 ==
    /\ pc = "menu"
    /\ \E outcome \in Ends("done") :
          Finish(Same(Made("view_history", "menu", <<>>, outcome, NoValue)))

\* Lines 458-459: the farewell is printed before sys.exit(0).
Option9 ==
    /\ pc = "menu"
    /\ \E outcome \in Ends("SystemExit") :
          Finish(Same(Made("quit", "menu", <<>>, outcome, NoValue)))

\* Line 462.
OptionInvalid ==
    /\ pc = "menu"
    /\ \E outcome \in Ends("done") :
          Finish(Same(Made("invalid_option", "menu", <<>>, outcome, NoValue)))

\* Lines 471-472: Enter at the closing prompt starts the next iteration.
PauseContinue ==
    /\ pc = "pause"
    /\ pc' = "menu"
    /\ last' = Idle
    /\ UNCHANGED <<current_circuit, current_operator, results_history, gui_enabled>>

\* Line 472: this input() is outside the try block too.
PausePromptAbort ==
    /\ pc = "pause"
    /\ \E line \in Aborts :
          last' = Made("pause_prompt", "prompt", <<>>, Raised(line), NoValue)
    /\ pc' = "crashed"
    /\ UNCHANGED <<current_circuit, current_operator, results_history, gui_enabled>>

Next ==
    \/ MenuPromptAbort
    \/ Option1
    \/ Option2
    \/ Option3
    \/ Option4
    \/ Option5
    \/ Option6
    \/ Option7
    \/ Option8
    \/ Option9
    \/ OptionInvalid
    \/ PauseContinue
    \/ PausePromptAbort

Spec == Init /\ [][Next]_vars

-----------------------------------------------------------------------------
(* Properties of create_polarity_operator, stated on the inputs and the    *)
(* returned term list of a direct call.                                    *)

BuilderCalled == pc = "direct" /\ last.op = "create_polarity_operator"

BuilderPending == BuilderCalled /\ last.outcome = "pending"

BuilderDone == BuilderCalled /\ last.outcome # "pending"

BuilderReturned == BuilderCalled /\ last.outcome = "returned"

ArgRows == last.args.s_tensor.shape[1]

ArgCols == last.args.s_tensor.shape[2]

\* n, the number of qubits of a well-formed tensor
ArgQubits == ArgRows - 1

WellFormed == ArgRows = ArgCols /\ ArgRows >= 2

\* lambda * S[i+1][j+1] for qubit indices i, j
ArgCoeff(i, j) == Mul(last.args.lambda_scalar, last.args.s_tensor.data[<<i + 1, j + 1>>])

\* |a| <= |b| for floats that are not 0: a has the smaller exponent, or the
\* same and no limb of its M is the first, from the top, to be larger.
MagnitudeAtMost(a, b) ==
    \/ a.e < b.e
    \/ /\ a.e = b.e
       /\ \A k \in 1..4 : a.m[k] > b.m[k] => \E j \in (k + 1)..4 : a.m[j] < b.m[j]

\* |c| exceeds the threshold 1e-9.
ExceedsNegligibility(c) == c.s # 0 /\ ~MagnitudeAtMost(c, Threshold)

Significant(i, j) == ExceedsNegligibility(ArgCoeff(i, j))

QubitIdx == 0..(ArgQubits - 1)

SignificantQubits == {i \in QubitIdx : Significant(i, i)}

SignificantPairs == {ij \in QubitIdx \X QubitIdx : ij[1] < ij[2] /\ Significant(ij[1], ij[2])}

OffDiagonalNegligible == SignificantPairs = {}

\* The positions (0-based) of a label that are not the identity.
Support(label) == {q \in 0..(Len(label) - 1) : label[q + 1] # "I"}

\* label has length n, character ch at every position of `at`, identity elsewhere
IsLabel(label, n, at, ch) ==
    /\ Len(label) = n
    /\ \A q \in 0..(n - 1) : label[q + 1] = (IF q \in at THEN ch ELSE "I")

IsSentinel(op, n) ==
    /\ Len(op) = 1
    /\ IsLabel(op[1][1], n, {}, "I")
    /\ op[1][2] = Zero

TermsWhere(op, Test(_)) == {k \in 1..Len(op) : Test(op[k])}

\* C1 as claimed: with negligible off-diagonal coefficients, the call returns
\* one term per qubit index whose diagonal coefficient is above the threshold
\* (and the zero-identity sentinel when there is none).
C1_OneTermPerQubit ==
    (BuilderReturned /\ WellFormed /\ OffDiagonalNegligible) =>
        IF SignificantQubits = {}
        THEN IsSentinel(last.ret, ArgQubits)
        ELSE /\ Len(last.ret) = Cardinality(SignificantQubits)
             /\ \A k \in 1..Len(last.ret) : Cardinality(Support(last.ret[k][1])) = 1

\* C1 as amended: with negligible off-diagonal coefficients, the call returns
\* exactly three terms per qubit index i whose diagonal coefficient is above
\* the threshold, one for each of X, Y and Z at position i with identity
\* elsewhere and coefficient lambda*S[i+1][i+1], and nothing else; it returns
\* the zero-identity sentinel when there is no such index.
C1_ThreeTermsPerQubit ==
    (BuilderReturned /\ WellFormed /\ OffDiagonalNegligible) =>
        IF SignificantQubits = {}
        THEN IsSentinel(last.ret, ArgQubits)
        ELSE /\ Len(last.ret) = 3 * Cardinality(SignificantQubits)
             /\ \A i \in SignificantQubits : \A ch \in {"X", "Y", "Z"} :
                   Cardinality(TermsWhere(last.ret, LAMBDA t :
                       /\ IsLabel(t[1], ArgQubits, {i}, ch)
                       /\ t[2] = ArgCoeff(i, i))) = 1

\* A call on a 4x4 tensor with negligible off-diagonal coefficients that are
\* not all zero, some qubits above the threshold and some not.
C1_Witness ==
    /\ BuilderReturned /\ WellFormed /\ OffDiagonalNegligible
    /\ ArgQubits = 3
    /\ SignificantQubits # {} /\ SignificantQubits # QubitIdx
    /\ \E ij \in QubitIdx \X QubitIdx : ij[1] < ij[2] /\ ArgCoeff(ij[1], ij[2]) # Zero
    /\ Len(last.ret) = 3 * Cardinality(SignificantQubits)

Malformed == ArgRows # ArgCols \/ ArgRows < 2

\* C4: a call with a tensor that is not square, or is square and smaller than
\* 2x2, ends in ValueError, returns nothing and leaves the current operator
\* as it was.
C4_MalformedTensorRejected ==
    [][(BuilderPending /\ Malformed) =>
          /\ last'.outcome = "ValueError"
          /\ last'.ret = NoValue
          /\ current_operator' = current_operator]_vars

\* A rejected non-square tensor on an analyzer that holds an operator, and
\* (the other case) a rejected square tensor smaller than 2x2.
C4_Witness ==
    /\ BuilderDone /\ last.outcome = "ValueError"
    /\ current_operator = SeedOperator
    /\ \/ ArgRows # ArgCols /\ ArgRows >= 2 /\ ArgCols >= 2
       \/ ArgRows = ArgCols /\ ArgRows = 1

\* The terms of op with exactly two non-identity positions.
TwoQubitTerms(op) == TermsWhere(op, LAMBDA t : Cardinality(Support(t[1])) = 2)

\* C5: the two-qubit terms returned are exactly one per pair i < j whose
\* coefficient is above the threshold: Z at i and j, identity elsewhere,
\* coefficient lambda*S[i+1][j+1]; none for a pair below it, none for n = 1.
C5_TwoQubitTerms ==
    (BuilderReturned /\ WellFormed) =>
        /\ Cardinality(TwoQubitTerms(last.ret)) = Cardinality(SignificantPairs)
        /\ \A ij \in SignificantPairs :
              Cardinality(TermsWhere(last.ret, LAMBDA t :
                  /\ IsLabel(t[1], ArgQubits, {ij[1], ij[2]}, "Z")
                  /\ t[2] = ArgCoeff(ij[1], ij[2]))) = 1
        /\ \A k \in 1..Len(last.ret) : Cardinality(Support(last.ret[k][1])) <= 2
        /\ (ArgQubits = 1 => TwoQubitTerms(last.ret) = {})

\* A call on a 4x4 tensor where the pair (0, 2) is above the threshold and
\* another pair is not.
C5_Witness ==
    /\ BuilderReturned /\ WellFormed /\ ArgQubits = 3
    /\ <<0, 2>> \in SignificantPairs
    /\ Cardinality(SignificantPairs) < 3
    /\ Cardinality(TwoQubitTerms(last.ret)) = Cardinality(SignificantPairs)

NothingSignificant == SignificantQubits = {} /\ SignificantPairs = {}

\* C6: when no coefficient is above the threshold the call raises nothing and
\* returns exactly one term, the all-identity label of length n with
\* coefficient 0.
C6_EmptyHamiltonianSentinel ==
    (BuilderDone /\ WellFormed /\ NothingSignificant) =>
        /\ last.outcome = "returned"
        /\ IsSentinel(last.ret, ArgQubits)

\* The sentinel returned for a 3x3 tensor whose coefficients are all nonzero
\* and below the threshold.
C6_Witness ==
    /\ BuilderDone /\ WellFormed /\ NothingSignificant
    /\ ArgQubits = 2
    /\ \A i \in QubitIdx : \A j \in QubitIdx : i <= j => ArgCoeff(i, j) # Zero
    /\ IsSentinel(last.ret, ArgQubits)

\* C7: every term returned for a k x k tensor, k >= 2, has a label of length
\* k-1 over the alphabet I, X, Y, Z.
C7_LabelShape ==
    (BuilderReturned /\ ArgRows = ArgCols /\ ArgRows >= 2) =>
        \A k \in 1..Len(last.ret) :
            /\ Len(last.ret[k][1]) = ArgRows - 1
            /\ \A q \in 1..Len(last.ret[k][1]) : last.ret[k][1][q] \in {"I", "X", "Y", "Z"}

\* A 4x4 call that returned single-qubit and two-qubit terms.
C7_Witness ==
    /\ BuilderReturned /\ ArgRows = 4 /\ ArgCols = 4
    /\ SignificantQubits # {} /\ SignificantPairs # {}
    /\ Len(last.ret) = 3 * Cardinality(SignificantQubits) + Cardinality(SignificantPairs)

\* C10 as claimed: the call leaves the analyzer's state (current circuit,
\* current operator, results history) as it was.
C10_NoSideEffects ==
    [][BuilderPending => analyzer' = analyzer]_vars

\* C10 as amended: the call leaves the current circuit and the results
\* history as they were; the current operator becomes the returned operator
\* when at least one coefficient is above the threshold, and is left as it
\* was when the call raises or returns the zero-identity sentinel.
C10_OnlyOperatorIsReplaced ==
    [][BuilderPending =>
          /\ current_circuit' = current_circuit
          /\ results_history' = results_history
          /\ current_operator' =
                (IF WellFormed /\ ~NothingSignificant
                 THEN last'.ret ELSE current_operator)]_vars

\* A call that replaced the operator of a used analyzer, whose circuit and
\* history are still there.
C10_Witness ==
    /\ BuilderReturned
    /\ current_circuit = SeedCircuit /\ results_history = <<SeedRecord>>
    /\ current_operator = last.ret /\ current_operator # SeedOperator
    /\ Len(current_operator) > 1

-----------------------------------------------------------------------------
(* Claims about the session loop and about calls made through it.          *)

\* The step is a call of method op that has ended: one made from the menu,
\* or a pending direct call being carried out.
CallEnds(op) ==
    /\ last'.op = op /\ last'.stage = "call" /\ last'.outcome # "pending"
    /\ pc = "menu" \/ last.outcome = "pending"

\* The state right after a call of method op made from the menu.
JustCalled(op) == pc = "pause" /\ last.op = op /\ last.stage = "call"

\* C2: the process ends only by the quit option: the loop is at the menu
\* prompt, in a handler's closing prompt, or has exited through option 9;
\* no interrupt or error at a prompt or in a handler ends it.
C2_OnlyQuitEndsTheProcess ==
    /\ pc \in {"menu", "pause", "exited"}
    /\ pc = "exited" => last.op = "quit"

\* C3: a call of create_protein_quantum_circuit with a qubit count outside
\* [2,10] ends in ValueError, unless Ctrl-C ends it before the range is
\* checked, and leaves the current circuit, the current operator, the
\* results history and the graphics toggle as they were.
C3_BadQubitCountRejected ==
    [][(CallEnds("create_protein_quantum_circuit")
        /\ last'.args.num_qubits \notin MinQubits..MaxQubits) =>
          /\ last'.outcome # "KeyboardInterrupt" =>
                (last'.outcome = "ValueError" /\ last'.ret = NoCircuit)
          /\ UNCHANGED <<current_circuit, current_operator, results_history,
                         gui_enabled>>]_vars

\* Option 1 with a qubit count just above the range, rejected in a session
\* that holds a circuit, an operator and a record and has graphics disabled.
C3_Witness ==
    /\ JustCalled("create_protein_quantum_circuit")
    /\ last.args.num_qubits = MaxQubits + 1
    /\ last.outcome = "ValueError"
    /\ current_circuit # NoCircuit /\ current_operator # NoOperator
    /\ results_history # <<>> /\ ~gui_enabled

\* C8: the results history changes only in a simulate_protein_dynamics call
\* that returns a record, and then by that record (histogram, requested
\* shots, elapsed time, depth and qubit count of the current circuit) being
\* put at its end; a call that returns None, and every other operation,
\* leaves it as it was.
C8_HistoryAppendOnly ==
    [][IF CallEnds("simulate_protein_dynamics") /\ last'.outcome = "returned"
       THEN /\ results_history' = results_history \o <<last'.ret>>
            /\ last'.ret.shots = last'.args.shots
            /\ last'.ret.circuit_depth = Depth(current_circuit)
            /\ last'.ret.num_qubits = current_circuit.num_qubits
            /\ DOMAIN last'.ret = {"counts", "shots", "simulation_time",
                                   "circuit_depth", "num_qubits"}
       ELSE results_history' = results_history]_vars

\* C9: after a create_polarity_operator call that returned, the current
\* operator is the operator it returned.
C9_CurrentIsLastReturned ==
    (JustCalled("create_polarity_operator") /\ last.outcome = "returned")
        => current_operator = last.ret

-----------------------------------------------------------------------------
(* Claims about visualize_results.                                         *)

VisualizePending == last.op = "visualize_results" /\ last.outcome = "pending"

VisualizeDone == last.op = "visualize_results" /\ last.outcome # "pending"

\* The record the call is about: the one passed, else the latest of the
\* history, else none.
RecordShown ==
    IF last.args.results # NoRecord THEN last.args.results
    ELSE IF results_history # <<>> THEN results_history[Len(results_history)]
    ELSE NoRecord

\* rows is a ranking of the histogram counts: as many rows as there are
\* outcomes, up to ten; each row a different outcome with its count; counts
\* not rising down the table; no outcome left out that is more frequent than
\* one listed; and the third column count/shots as a percentage, to the
\* nearest hundredth.
IsRanking(rows, counts, shots) ==
    /\ Len(rows) = (IF Len(counts) < 10 THEN Len(counts) ELSE 10)
    /\ \A a \in 1..Len(rows) :
          /\ rows[a][1] \in 1..Len(counts)
          /\ rows[a][2] = counts[rows[a][1]]
          /\ 2 * Abs(rows[a][3] * shots - rows[a][2] * 10000) <= shots
          /\ \A b \in 1..Len(rows) : a < b =>
                /\ rows[a][1] # rows[b][1]
                /\ rows[a][2] >= rows[b][2]
    /\ \A k \in 1..Len(counts) :
          (\A a \in 1..Len(rows) : rows[a][1] # k) =>
             \A a \in 1..Len(rows) : counts[k] <= rows[a][2]

\* C11: visualize_results on a record with a non-empty histogram prints the
\* table exactly when graphics are disabled or the plot call fails; the table
\* ranks the (at most ten) most frequent outcomes with count and count/shots;
\* the call returns nothing and leaves the current circuit, the current
\* operator and the results history as they were.
C11_TableIffNoPlot ==
    [][(VisualizePending /\ RecordShown.counts # <<>>) =>
          /\ last'.outcome = "returned_none"
          /\ last'.ret = NoValue
          /\ last'.table.printed <=> (~last.args.gui \/ last.args.plot = "error")
          /\ last'.table.printed =>
                IsRanking(last'.table.rows, RecordShown.counts, RecordShown.shots)
          /\ ~last'.table.printed => last'.table.rows = <<>>
          /\ UNCHANGED <<current_circuit, current_operator, results_history>>]_vars

\* A failed plot of a histogram of more than ten outcomes, on an analyzer
\* that has been used: ten rows, the first an outcome the histogram did not
\* list first, and more frequent than the last.
C11_Witness ==
    /\ VisualizeDone /\ last.args.gui /\ last.args.plot = "error"
    /\ Len(last.args.results.counts) > 10
    /\ last.table.printed /\ Len(last.table.rows) = 10
    /\ last.table.rows[1][1] # 1
    /\ last.table.rows[1][2] > last.table.rows[10][2]
    /\ results_history = <<SeedRecord>>

-----------------------------------------------------------------------------
(* Claims about the circuit create_protein_quantum_circuit builds.         *)

CircuitPending ==
    last.op = "create_protein_quantum_circuit" /\ last.outcome = "pending"

CircuitDone ==
    pc = "direct" /\ last.op = "create_protein_quantum_circuit"
    /\ last.outcome # "pending"

\* The gates of a circuit in order, barriers left out, each as its name and
\* the qubits it acts on.
GatesOf(circuit) ==
    LET gates == SelectSeq(circuit.ops, LAMBDA g : g.name # "barrier")
    IN  [k \in 1..Len(gates) |-> <<gates[k].name, gates[k].qubits>>]

\* X(0), H(1), X(2), H(3), X(4), as far as there are qubits.
Preparation(n) ==
    [k \in 1..(IF n < 5 THEN n ELSE 5) |-> <<IF k % 2 = 1 THEN "x" ELSE "h", <<k - 1>> >>]

\* rxx then rzz on (0,1), rxx then rzz on (1,2), ..., on (n-2,n-1).
Rotations(n) ==
    [k \in 1..(2 * (n - 1)) |->
        <<IF k % 2 = 1 THEN "rxx" ELSE "rzz", <<(k - 1) \div 2, (k - 1) \div 2 + 1>> >>]

EndSwap(n) == IF n >= 4 THEN << <<"swap", <<0, n - 1>> >> >> ELSE <<>>

Cnots(n) == [k \in 1..(n - 1) |-> <<"cx", <<k - 1, k>> >>]

Measurement(n) == [k \in 1..n |-> <<"measure", <<k - 1>> >>]

\* C12: a call with n in [2,10] returns the circuit on n qubits whose gates
\* are the preparation, then (with the flag set) the rotations on adjacent
\* pairs, the swap of the ends when n >= 4 and the CNOTs on adjacent pairs,
\* then the measurement of every qubit; every instruction acts on qubits in
\* [0,n) only; and the circuit is the analyzer's current circuit.
C12_CircuitSequence ==
    [][(CircuitPending /\ last.args.num_qubits \in 2..10) =>
          LET n == last.args.num_qubits
              qc == last'.ret
          IN  /\ last'.outcome = "returned"
              /\ qc.num_qubits = n
              /\ GatesOf(qc) =
                    Preparation(n)
                    \o (IF last.args.custom_gates
                        THEN Rotations(n) \o EndSwap(n) \o Cnots(n) ELSE <<>>)
                    \o Measurement(n)
              /\ \A k \in 1..Len(qc.ops) : \A x \in 1..Len(qc.ops[k].qubits) :
                    qc.ops[k].qubits[x] \in 0..(n - 1)
              /\ current_circuit' = qc]_vars

\* The largest circuit with the complex interactions, built on an analyzer
\* that held another circuit: 5 + 18 + 1 + 9 + 10 gates.
C12_Witness ==
    /\ CircuitDone /\ last.outcome = "returned"
    /\ last.args.num_qubits = MaxQubits /\ last.args.custom_gates
    /\ results_history = <<SeedRecord>>
    /\ current_circuit = last.ret /\ current_circuit # SeedCircuit
    /\ Len(GatesOf(current_circuit)) = 43

====
